---- MODULE Spec2Model ----
(***************************************************************************)
(* Guardian bot (src/guardian_bot.py): the moderation pipeline of          *)
(* handle_message as a state machine.  A task is one run of the coroutine  *)
(* handle_message; it suspends at each await (reply_text, delete,          *)
(* get_chat_administrators, the classifier, ban_chat_member, send_message) *)
(* and every other stretch of code runs without interruption on the event  *)
(* loop.                                                                   *)
(*                                                                         *)
(* Lines 222-224 of the source are read as the block the code means:       *)
(* lines 223-224 are the body of the "if" of line 222.                     *)
(***************************************************************************)
EXTENDS Integers, Sequences, FiniteSets, TLC

\* ------------------------------------------------------------------ bounds

\* Number of clock advances in a behaviour.
MaxTicks == 5
\* Number of handle_message tasks that may overlap in SpecConc.
NumTasks == 2
\* Largest warning count a behaviour may build up (the counter is unbounded
\* in the code once a ban call fails).
MaxWarn == 4

\* --------------------------------------------------------------- constants

ADMIN_USER_ID == 3
FloodSeconds == 2
StrikeLimit == 3
MinAILen == 15
SecondsPerDay == 86400

\* User 1 is an ordinary member, user 2 a chat administrator, user 3 the
\* configured operator.
Users == {1, 2, 3}
None == 0

\* Chat ids: groups are negative, private chats positive (line 234).
GroupChat == -10
PrivateChat == 10
OtherChat == -20
Chats == {GroupChat, PrivateChat, OtherChat}
StoredAllowedChats == {GroupChat, PrivateChat}

\* What the gateway answers to get_chat_administrators when it answers.
ChatAdmins(chat) == {2}

\* ------------------------------------------------------------------- text
\* A text is a sequence of characters, a character a string of length one.

UpperChars == <<"A","B","C","D","E","F","G","H","I","J","K","L","M",
                "N","O","P","Q","R","S","T","U","V","W","X","Y","Z">>
LowerChars == <<"a","b","c","d","e","f","g","h","i","j","k","l","m",
                "n","o","p","q","r","s","t","u","v","w","x","y","z">>

LowerChar(c) ==
  IF \E i \in 1..Len(UpperChars) : UpperChars[i] = c
  THEN LowerChars[CHOOSE i \in 1..Len(UpperChars) : UpperChars[i] = c]
  ELSE c

UpperChar(c) ==
  IF \E i \in 1..Len(LowerChars) : LowerChars[i] = c
  THEN UpperChars[CHOOSE i \in 1..Len(LowerChars) : LowerChars[i] = c]
  ELSE c

\* str.lower() and str.upper()
Lower(s) == [i \in 1..Len(s) |-> LowerChar(s[i])]
Upper(s) == [i \in 1..Len(s) |-> UpperChar(s[i])]

\* Python's "w in s" on strings
Contains(s, w) ==
  \E i \in 0..(Len(s) - Len(w)) : SubSeq(s, i + 1, i + Len(w)) = w

\* str.startswith(c) for a single character c
StartsWith(s, c) == Len(s) > 0 /\ s[1] = c

NoText == << >>
TxtMention == <<"h","i"," ","@","b","o","b">>
TxtSlash == <<"/"," ","@","b","o","b">>
TxtBad == <<"@","B","u","y","N","o","w">>
TxtShort == <<"h","e","l","l","o"," ","e","v","e","r","y","b","o","d","y">>
TxtLong == <<"h","e","l","l","o"," ","e","v","e","r","y","b","o","d","y","!">>
TxtLongBad == <<"p","l","e","a","s","e"," ","b","u","y","n","o","w"," ","o","k","!">>

WordBuyNow == <<"B","u","y","N","o","w">>
WordFree == <<"f","r","e","e">>

\* Answers of the classifier (response.text)
RespSpam == <<"S","P","A","M">>
RespOk == <<"O","K">>
RespLower == <<"s","p","a","m">>
Responses == {RespSpam, RespOk, RespLower}

\* ------------------------------------------------------------------ state

VARIABLES
  user_warnings,      \* user id -> warning count; a user without entry is absent
  user_last_message,  \* user id -> time of the last admitted message
  blacklist_words,    \* the active blacklist (lower-cased words)
  db_blacklist,       \* the words of table blacklist
  allowed_chats,      \* the chats loaded from table allowed_chats
  clock,              \* number of clock advances so far
  pc,                 \* task -> where the task is
  msg,                \* task -> the message the task handles
  verdict,            \* task -> [is_spam, reason] of the task
  out                 \* task -> what the task has requested so far (history)

vars == <<user_warnings, user_last_message, blacklist_words, db_blacklist,
          allowed_chats, clock, pc, msg, verdict, out>>

Tasks == 1..NumTasks
\* python-telegram-bot built without concurrent_updates (line 304) handles one
\* update at a time.
SeqTasks == {1}

\* The wall clock at the clock-th advance: 0, 1, 2, 4, 6, ... seconds, and the
\* last advance of a behaviour is one whole day.
RECURSIVE Instant(_)
Instant(i) ==
  IF i = 0 THEN 0
  ELSE IF i = MaxTicks THEN Instant(i - 1) + SecondsPerDay
  ELSE IF i = 1 THEN 1
  ELSE 2 * (i - 1)

\* timedelta.seconds: the seconds left once whole days are taken out
TimedeltaSeconds(d) == d % SecondsPerDay

\* defaultdict(int): reading an absent key gives 0
Count(w, u) == IF u \in DOMAIN w THEN w[u] ELSE 0
\* user_warnings[u] += 1
Increment(w, u) ==
  [x \in DOMAIN w \cup {u} |-> IF x = u THEN Count(w, u) + 1 ELSE w[x]]
\* del user_warnings[u]
Delete(w, u) == [x \in DOMAIN w \ {u} |-> w[x]]
\* The map replaced by one holding the new entry alone
StoreAlone(d, u, v) == [x \in {u} |-> v]
\* d[u] = v
Store(d, u, v) == [x \in DOMAIN d \cup {u} |-> IF x = u THEN v ELSE d[x]]
EmptyMap == [x \in {} |-> 0]

NoMsg == [from_user |-> None, chat |-> None, entities |-> {},
          forward_from |-> None, forward_from_chat |-> None,
          text |-> NoText, caption |-> NoText]
NoVerdict == [is_spam |-> FALSE, reason |-> ""]
\* History of a task: the requests it has made (replied, deleted, warned with
\* which count, banned, noticed, lookup, classified), the branch it took
\* (flood, admitted, judged), what came back (answer: whether the classifier
\* gave a text, an error or a timeout, response: that text, failed: the
\* gateway call that failed), and what it found when it began (c0: the
\* sender's count, under: the message came less than the flood threshold
\* after the sender's last admitted one).
NoOut == [replied |-> 0, deleted |-> 0, warned |-> 0, banned |-> 0,
          noticed |-> 0, lookup |-> FALSE, classified |-> FALSE,
          flood |-> FALSE, admitted |-> FALSE, judged |-> FALSE,
          answer |-> "none", response |-> NoText, failed |-> "none", c0 |-> 0, under |-> FALSE]

\* ------------------------------------------------------------ rule engine

\* text = message.text or message.caption or ""
TextOf(m) ==
  IF m.text # NoText THEN m.text
  ELSE IF m.caption # NoText THEN m.caption
  ELSE NoText

RuleLink(v, m) ==
  IF \E e \in m.entities : e \in {"url", "text_link"}
  THEN [is_spam |-> TRUE, reason |-> "Links are not allowed"]
  ELSE v

\* The mention rule without its "not is_spam" guard
RuleMentionOverwrites(v, m) ==
  IF Contains(TextOf(m), <<"@">>) /\ ~StartsWith(TextOf(m), "/")
  THEN [is_spam |-> TRUE, reason |-> "Mentions are not allowed"]
  ELSE v

RuleMention(v, m) ==
  IF ~v.is_spam /\ Contains(TextOf(m), <<"@">>) /\ ~StartsWith(TextOf(m), "/")
  THEN [is_spam |-> TRUE, reason |-> "Mentions are not allowed"]
  ELSE v

RuleForward(v, m) ==
  IF ~v.is_spam /\ (m.forward_from # None \/ m.forward_from_chat # None)
  THEN [is_spam |-> TRUE, reason |-> "Forwarded messages are not allowed"]
  ELSE v

RuleBlacklist(v, m, bl) ==
  IF ~v.is_spam /\ \E word \in bl : Contains(Lower(TextOf(m)), word)
  THEN [is_spam |-> TRUE, reason |-> "Blacklisted word detected"]
  ELSE v

\* lines 246-259: the flags after the strict rules and the blacklist
StrictRules(m, bl) ==
  RuleBlacklist(RuleForward(RuleMention(RuleLink(NoVerdict, m), m), m), m, bl)

\* The classifier called from 15 characters on
NeedsAIFromLimit(v, m) ==
  ~v.is_spam /\ TextOf(m) # NoText /\ Len(TextOf(m)) >= MinAILen

\* line 262
NeedsAI(v, m) == ~v.is_spam /\ TextOf(m) # NoText /\ Len(TextOf(m)) > MinAILen

\* lines 268-269
RuleAI(v, response) ==
  IF Contains(Upper(response), <<"S","P","A","M">>)
  THEN [is_spam |-> TRUE, reason |-> "AI detected spam content"]
  ELSE v

\* ------------------------------------------------------------------ gates

\* The chat check letting every chat through
ChatAllowedAlways(chat, allowed) == TRUE

\* line 222
ChatAllowed(chat, allowed) == chat \in allowed

\* The flood test with a threshold one second short
FloodingOffByOne(last, u, now) ==
  u \in DOMAIN last /\ TimedeltaSeconds(now - last[u]) < FloodSeconds - 1

\* line 228
Flooding(last, u, now) ==
  u \in DOMAIN last /\ TimedeltaSeconds(now - last[u]) < FloodSeconds

\* line 234
LooksUpAdmins(chat) == chat > 0

\* line 238
ExemptOnAnswer(u, admin_ids) == u \in admin_ids \/ u = ADMIN_USER_ID

\* line 241
ExemptOnFailure(u) == u = ADMIN_USER_ID

\* line 280
Escalates(warning_count) == warning_count >= StrikeLimit

\* ---------------------------------------------------------- handle_message

Running(t) == pc[t] \notin {"idle", "done", "raised"}

SetPc(t, p) == pc' = [pc EXCEPT ![t] = p]

\* Enforcement started whatever the verdict
TakeActionAlways(t, v, o) ==
  /\ verdict' = [verdict EXCEPT ![t] = v]
  /\ SetPc(t, "delete")
  /\ out' = [out EXCEPT ![t] = [o EXCEPT !.judged = TRUE, !.deleted = @ + 1]]

\* lines 274-276: the verdict is final; a spam message is deleted first
TakeAction(t, v, o) ==
  /\ verdict' = [verdict EXCEPT ![t] = v]
  /\ IF v.is_spam
     THEN /\ SetPc(t, "delete")
          /\ out' = [out EXCEPT ![t] =
                       [o EXCEPT !.judged = TRUE, !.deleted = @ + 1]]
     ELSE /\ SetPc(t, "done")
          /\ out' = [out EXCEPT ![t] = [o EXCEPT !.judged = TRUE]]

\* lines 244-265: the strict rules and the blacklist, then the classifier
\* call for a longer text no rule matched
AfterGates(t, o) ==
  LET v == StrictRules(msg[t], blacklist_words) IN
  IF NeedsAI(v, msg[t])
  THEN /\ verdict' = [verdict EXCEPT ![t] = v]
       /\ SetPc(t, "classify")
       /\ out' = [out EXCEPT ![t] = [o EXCEPT !.classified = TRUE]]
  ELSE TakeAction(t, v, o)

\* An update reaches the handler (line 317).
Receive(t, m) ==
  /\ ~Running(t)
  /\ Count(user_warnings, m.from_user) < MaxWarn
  /\ SetPc(t, "start")
  /\ msg' = [msg EXCEPT ![t] = m]
  /\ verdict' = [verdict EXCEPT ![t] = NoVerdict]
  /\ out' = [out EXCEPT ![t] = NoOut]
  /\ UNCHANGED <<user_warnings, user_last_message, blacklist_words,
                 db_blacklist, allowed_chats, clock>>

\* lines 214-242 up to the first await
Start(t) ==
  /\ pc[t] = "start"
  /\ LET m == msg[t]
         u == m.from_user
         now == Instant(clock)
         o == [out[t] EXCEPT
                 !.c0 = Count(user_warnings, u),
                 !.under = (u \in DOMAIN user_last_message
                            /\ now - user_last_message[u] < FloodSeconds)]
     IN
     IF u = None
     THEN /\ SetPc(t, "done")
          /\ UNCHANGED <<user_last_message, verdict, out>>
     ELSE IF ~ChatAllowed(m.chat, allowed_chats)
     THEN /\ SetPc(t, "reply")
          /\ out' = [out EXCEPT ![t] = [o EXCEPT !.replied = @ + 1]]
          /\ UNCHANGED <<user_last_message, verdict>>
     ELSE IF Flooding(user_last_message, u, now)
     THEN /\ SetPc(t, "flood_delete")
          /\ out' = [out EXCEPT ![t] =
                       [o EXCEPT !.flood = TRUE, !.deleted = @ + 1]]
          /\ UNCHANGED <<user_last_message, verdict>>
     ELSE /\ user_last_message' = Store(user_last_message, u, now)
          /\ IF LooksUpAdmins(m.chat)
             THEN /\ SetPc(t, "admins")
                  /\ out' = [out EXCEPT ![t] =
                               [o EXCEPT !.admitted = TRUE, !.lookup = TRUE]]
                  /\ UNCHANGED verdict
             ELSE AfterGates(t, [o EXCEPT !.admitted = TRUE])
  /\ UNCHANGED <<user_warnings, blacklist_words, db_blacklist, allowed_chats,
                 clock, msg>>

\* line 223: the reply to an unauthorized chat returns or raises; nothing
\* catches what it raises
ReplyReturn(t) ==
  /\ pc[t] = "reply"
  /\ \/ SetPc(t, "done") /\ UNCHANGED out
     \/ SetPc(t, "raised") /\ out' = [out EXCEPT ![t].failed = "reply"]
  /\ UNCHANGED <<user_warnings, user_last_message, blacklist_words,
                 db_blacklist, allowed_chats, clock, msg, verdict>>

\* line 229: the delete of a flood-rejected message returns or raises;
\* nothing catches what it raises
FloodDeleteReturn(t) ==
  /\ pc[t] = "flood_delete"
  /\ \/ SetPc(t, "done") /\ UNCHANGED out
     \/ SetPc(t, "raised") /\ out' = [out EXCEPT ![t].failed = "flood_delete"]
  /\ UNCHANGED <<user_warnings, user_last_message, blacklist_words,
                 db_blacklist, allowed_chats, clock, msg, verdict>>

\* lines 236-242: get_chat_administrators answers or raises
AdminsReturn(t) ==
  /\ pc[t] = "admins"
  /\ \/ IF ExemptOnAnswer(msg[t].from_user, ChatAdmins(msg[t].chat))
        THEN SetPc(t, "done") /\ UNCHANGED <<verdict, out>>
        ELSE AfterGates(t, out[t])
     \/ LET o == [out[t] EXCEPT !.failed = "lookup"] IN
        IF ExemptOnFailure(msg[t].from_user)
        THEN /\ SetPc(t, "done")
             /\ out' = [out EXCEPT ![t] = o]
             /\ UNCHANGED verdict
        ELSE AfterGates(t, o)
  /\ UNCHANGED <<user_warnings, user_last_message, blacklist_words,
                 db_blacklist, allowed_chats, clock, msg>>

\* The classifier call with a failure taken for a spam verdict
ClassifyReturnFailClosed(t) ==
  /\ pc[t] = "classify"
  /\ \/ \E response \in Responses :
          TakeAction(t, RuleAI(verdict[t], response),
                     [out[t] EXCEPT !.answer = "text", !.response = response])
     \/ \E failure \in {"error", "timeout"} :
          TakeAction(t, [is_spam |-> TRUE, reason |-> "AI detected spam content"],
                     [out[t] EXCEPT !.answer = failure])
  /\ UNCHANGED <<user_warnings, user_last_message, blacklist_words,
                 db_blacklist, allowed_chats, clock, msg>>

\* The classifier call awaited without a timeout
ClassifyReturnNoTimeout(t) ==
  /\ pc[t] = "classify"
  /\ \/ \E response \in Responses :
          TakeAction(t, RuleAI(verdict[t], response),
                     [out[t] EXCEPT !.answer = "text", !.response = response])
     \/ TakeAction(t, verdict[t], [out[t] EXCEPT !.answer = "error"])
  /\ UNCHANGED <<user_warnings, user_last_message, blacklist_words,
                 db_blacklist, allowed_chats, clock, msg>>

\* lines 264-271: the classifier answers, raises, or the 5 s run out
ClassifyReturn(t) ==
  /\ pc[t] = "classify"
  /\ \/ \E response \in Responses :
          TakeAction(t, RuleAI(verdict[t], response),
                     [out[t] EXCEPT !.answer = "text", !.response = response])
     \/ \E failure \in {"error", "timeout"} :
          TakeAction(t, verdict[t], [out[t] EXCEPT !.answer = failure])
  /\ UNCHANGED <<user_warnings, user_last_message, blacklist_words,
                 db_blacklist, allowed_chats, clock, msg>>

\* lines 276-293: message.delete() returns and the counter moves, or it
\* raises and line 294 catches it
DeleteReturn(t) ==
  /\ pc[t] = "delete"
  /\ \/ LET u == msg[t].from_user
            w == Increment(user_warnings, u)
            warning_count == w[u]
        IN
        /\ user_warnings' = w
        /\ IF Escalates(warning_count)
           THEN /\ SetPc(t, "ban")
                /\ out' = [out EXCEPT ![t].banned = @ + 1]
           ELSE /\ SetPc(t, "send_warn")
                /\ out' = [out EXCEPT ![t].warned = warning_count]
     \/ /\ SetPc(t, "done")
        /\ out' = [out EXCEPT ![t].failed = "delete"]
        /\ UNCHANGED user_warnings
  /\ UNCHANGED <<user_last_message, blacklist_words, db_blacklist,
                 allowed_chats, clock, msg, verdict>>

\* lines 281-282: ban_chat_member returns and the notice is sent, or it raises
BanReturn(t) ==
  /\ pc[t] = "ban"
  /\ \/ /\ SetPc(t, "send_ban")
        /\ out' = [out EXCEPT ![t].noticed = @ + 1]
     \/ /\ SetPc(t, "done")
        /\ out' = [out EXCEPT ![t].failed = "ban"]
  /\ UNCHANGED <<user_warnings, user_last_message, blacklist_words,
                 db_blacklist, allowed_chats, clock, msg, verdict>>

\* lines 282-287: the ban notice is sent and the entry deleted (a KeyError of
\* the del is caught by line 294), or send_message raises
SendBanReturn(t) ==
  /\ pc[t] = "send_ban"
  /\ \/ /\ user_warnings' = Delete(user_warnings, msg[t].from_user)
        /\ UNCHANGED out
     \/ /\ out' = [out EXCEPT ![t].failed = "notice"]
        /\ UNCHANGED user_warnings
  /\ SetPc(t, "done")
  /\ UNCHANGED <<user_last_message, blacklist_words, db_blacklist,
                 allowed_chats, clock, msg, verdict>>

\* The warning send with the count taken back when the send fails
SendWarnReturnUndo(t) ==
  /\ pc[t] = "send_warn"
  /\ \/ UNCHANGED <<out, user_warnings>>
     \/ /\ out' = [out EXCEPT ![t].failed = "warn"]
        /\ user_warnings' =
             [user_warnings EXCEPT ![msg[t].from_user] = @ - 1]
  /\ SetPc(t, "done")
  /\ UNCHANGED <<user_last_message, blacklist_words,
                 db_blacklist, allowed_chats, clock, msg, verdict>>

\* lines 289-295: the warning is sent or send_message raises
SendWarnReturn(t) ==
  /\ pc[t] = "send_warn"
  /\ \/ UNCHANGED out
     \/ out' = [out EXCEPT ![t].failed = "warn"]
  /\ SetPc(t, "done")
  /\ UNCHANGED <<user_warnings, user_last_message, blacklist_words,
                 db_blacklist, allowed_chats, clock, msg, verdict>>

\* line 264: the timeout of wait_for expires
ClassifyTimeout(t) == ClassifyReturn(t) /\ out'[t].answer = "timeout"

\* One step of the handler of task t
Step(t) ==
  \/ Start(t)
  \/ ReplyReturn(t)
  \/ FloodDeleteReturn(t)
  \/ AdminsReturn(t)
  \/ ClassifyReturn(t)
  \/ DeleteReturn(t)
  \/ BanReturn(t)
  \/ SendBanReturn(t)
  \/ SendWarnReturn(t)

\* ------------------------------------------------------------ environment

\* datetime.now() moves on
Tick ==
  /\ clock < MaxTicks
  /\ clock' = clock + 1
  /\ UNCHANGED <<user_warnings, user_last_message, blacklist_words,
                 db_blacklist, allowed_chats, pc, msg, verdict, out>>

\* lines 71-78
load_blacklist(db) == {Lower(word) : word \in db}

\* lines 80-87
load_allowed_chats(db) == db

\* addword updating the active set in place, one word per step
addwordInPlace(u, args) ==
  /\ u = ADMIN_USER_ID
  /\ args # {}
  /\ db_blacklist' = db_blacklist \cup {Lower(word) : word \in args}
  /\ blacklist_words' =
       blacklist_words \cup {Lower(CHOOSE word \in args : TRUE)}
  /\ UNCHANGED <<user_warnings, user_last_message, allowed_chats, clock, pc,
                 msg, verdict, out>>

\* lines 169-195: the operator adds words; the table is reloaded
addword(u, args) ==
  /\ u = ADMIN_USER_ID
  /\ args # {}
  /\ db_blacklist' = db_blacklist \cup {Lower(word) : word \in args}
  /\ blacklist_words' = load_blacklist(db_blacklist')
  /\ UNCHANGED <<user_warnings, user_last_message, allowed_chats, clock, pc,
                 msg, verdict, out>>

\* ----------------------------------------------------------------- inputs

Mk(u, c, e, ff, ffc, t, cap) ==
  [from_user |-> u, chat |-> c, entities |-> e, forward_from |-> ff,
   forward_from_chat |-> ffc, text |-> t, caption |-> cap]

\* Every combination of the fields the handler reads
AllMessages ==
  { Mk(u, c, e, f[1], f[2], t, cap) :
      u \in Users \cup {None}, c \in Chats,
      e \in {{}, {"url"}, {"text_link"}, {"mention"}},
      f \in {<<None, None>>, <<2, None>>, <<None, -30>>},
      t \in {NoText, TxtMention, TxtSlash, TxtBad, TxtShort, TxtLong, TxtLongBad},
      cap \in {NoText, TxtMention, TxtLong} }

\* The messages of the behaviours with several messages: a link, a short
\* clean text, a longer clean text
Plain(u, c, e, t) == Mk(u, c, e, None, None, t, NoText)
SomeMessages ==
  { Plain(u, c, x[1], x[2]) :
      u \in {1, 2}, c \in Chats,
      x \in {<<{"url"}, TxtShort>>, <<{}, TxtShort>>, <<{}, TxtLong>>} }

WordArgs == {{WordBuyNow}}

\* ------------------------------------------------------------------- specs

Init ==
  /\ user_warnings = EmptyMap
  /\ user_last_message = EmptyMap
  /\ db_blacklist = {}
  /\ blacklist_words = load_blacklist(db_blacklist)
  /\ allowed_chats = load_allowed_chats(StoredAllowedChats)
  /\ clock = 0
  /\ pc = [t \in Tasks |-> "idle"]
  /\ msg = [t \in Tasks |-> NoMsg]
  /\ verdict = [t \in Tasks |-> NoVerdict]
  /\ out = [t \in Tasks |-> NoOut]

\* Updates handled one at a time
Next ==
  \/ \E t \in SeqTasks : \E m \in SomeMessages : Receive(t, m)
  \/ \E t \in SeqTasks : Step(t)
  \/ Tick
  \/ \E u \in Users, args \in WordArgs :
       (\A t \in Tasks : ~Running(t)) /\ addword(u, args)

Spec == Init /\ [][Next]_vars

\* The messages of the behaviours with overlapping tasks
FewMessages ==
  { Plain(1, c, e, t) :
      c \in Chats, e \in {{"url"}}, t \in {TxtShort} }
  \cup {Plain(1, GroupChat, {}, TxtLong)}

\* One task for each update, the tasks overlapping at their awaits
NextConc ==
  \/ \E t \in Tasks : \E m \in FewMessages : Receive(t, m)
  \/ \E t \in Tasks : Step(t)
  \/ Tick

SpecConc == Init /\ [][NextConc]_vars

\* One message, of any content, handled from a state the bot can be in: the
\* sender warned zero to two times and seen or not at time 0, the blacklist
\* empty or loaded.
InitMsg ==
  /\ \E m \in AllMessages :
       /\ msg = [t \in Tasks |-> IF t = 1 THEN m ELSE NoMsg]
       /\ user_warnings \in
            {EmptyMap} \cup
            {[x \in {m.from_user} |-> c] : c \in 1..(StrikeLimit - 1)}
       /\ user_last_message \in {EmptyMap, [x \in {m.from_user} |-> 0]}
       /\ m.from_user = None =>
            user_warnings = EmptyMap /\ user_last_message = EmptyMap
  /\ db_blacklist \in {{}, {Lower(WordBuyNow)}}
  /\ blacklist_words = load_blacklist(db_blacklist)
  /\ allowed_chats = load_allowed_chats(StoredAllowedChats)
  /\ clock = 0
  /\ pc = [t \in Tasks |-> IF t = 1 THEN "start" ELSE "idle"]
  /\ verdict = [t \in Tasks |-> NoVerdict]
  /\ out = [t \in Tasks |-> NoOut]

NextMsg == \E t \in SeqTasks : Step(t)

SpecMsg == InitMsg /\ [][NextMsg]_vars

\* The event loop resumes a task whose gateway call has returned or failed,
\* and the timer of wait_for fires; the classifier itself need not answer.
TaskFairness(t) ==
  /\ WF_vars(Start(t))
  /\ WF_vars(ReplyReturn(t))
  /\ WF_vars(FloodDeleteReturn(t))
  /\ WF_vars(AdminsReturn(t))
  /\ WF_vars(ClassifyTimeout(t))
  /\ WF_vars(DeleteReturn(t))
  /\ WF_vars(BanReturn(t))
  /\ WF_vars(SendBanReturn(t))
  /\ WF_vars(SendWarnReturn(t))

SpecLive == InitMsg /\ [][NextMsg]_vars /\ \A t \in SeqTasks : TaskFairness(t)

\* One message in flight while the operator adds words: a command handler
\* runs whenever the message's task is suspended at an await.
ReloadArgs == SUBSET {WordBuyNow, WordFree} \ {{}}

\* The message has no caption and is not forwarded
InitReload ==
  /\ InitMsg
  /\ db_blacklist = {}
  /\ msg[1].caption = NoText
  /\ msg[1].forward_from = None /\ msg[1].forward_from_chat = None

NextReload ==
  \/ \E t \in SeqTasks : Step(t)
  \/ \E u \in Users, args \in ReloadArgs : addword(u, args)

SpecReload == InitReload /\ [][NextReload]_vars

\* ----------------------------------------------------------------- claims

Sender(t) == msg[t].from_user
NoEnforcement(t) ==
  out[t].deleted = 0 /\ out[t].warned = 0 /\ out[t].banned = 0

\* C1: spam messages of a user handled one after another: from a count of 0
\* or 1 the message is warned with count + 1, from a count of 2 it is
\* banned and the counter is absent once the handling is over (so the next
\* spam message is warned with 1 again).
C1_ThreeStrikes ==
  \A t \in SeqTasks :
    (pc[t] = "done" /\ verdict[t].is_spam) =>
      /\ out[t].c0 < StrikeLimit - 1 =>
           out[t].warned = out[t].c0 + 1 /\ out[t].banned = 0
      /\ out[t].c0 = StrikeLimit - 1 =>
           /\ out[t].banned = 1 /\ out[t].warned = 0
           /\ Sender(t) \notin DOMAIN user_warnings

C3_CountBelowLimit ==
  \A u \in Users :
    (\A t \in Tasks : Running(t) => Sender(t) # u)
    => Count(user_warnings, u) \in 0..(StrikeLimit - 1)

C4_Hits(m, bl, answer, response) ==
  << m.entities \cap {"url", "text_link"} # {},
     (\E i \in 1..Len(TextOf(m)) : TextOf(m)[i] = "@")
       /\ (TextOf(m) = NoText \/ Head(TextOf(m)) # "/"),
     m.forward_from # None \/ m.forward_from_chat # None,
     \E w \in bl : Contains(Lower(TextOf(m)), w),
     answer = "text" /\ Contains(Upper(response), RespSpam) >>
C4_Reasons ==
  << "Links are not allowed", "Mentions are not allowed",
     "Forwarded messages are not allowed", "Blacklisted word detected",
     "AI detected spam content" >>
C4_First(hits) ==
  IF \E i \in 1..Len(hits) : hits[i]
  THEN LET k == CHOOSE i \in 1..Len(hits) :
                  hits[i] /\ \A j \in 1..(i - 1) : ~hits[j]
       IN [is_spam |-> TRUE, reason |-> C4_Reasons[k]]
  ELSE NoVerdict

\* C4: the verdict of a message that went through the rules is that of the
\* first matching rule in the order link, mention, forward, blacklist,
\* classifier; a message with a link entity is spam for its link whatever
\* else it holds.
C4_FirstMatchWins ==
  \A t \in SeqTasks :
    out[t].judged =>
      /\ verdict[t] = C4_First(C4_Hits(msg[t], blacklist_words, out[t].answer,
                                       out[t].response))
      /\ msg[t].entities \cap {"url", "text_link"} # {} =>
           verdict[t] = [is_spam |-> TRUE, reason |-> "Links are not allowed"]

C4_Witness ==
  \E t \in SeqTasks :
    /\ out[t].judged
    /\ "text_link" \in msg[t].entities
    /\ msg[t].text = TxtBad
    /\ msg[t].forward_from_chat # None
    /\ blacklist_words # {}
    /\ verdict[t].reason = "Links are not allowed"

C5_Rejected(t) ==
  /\ out[t].flood /\ out[t].deleted = 1
  /\ ~out[t].judged /\ ~out[t].classified /\ verdict[t] = NoVerdict
  /\ out[t].warned = 0 /\ out[t].banned = 0
  /\ Count(user_warnings, Sender(t)) = out[t].c0

C6_AdminsExempt ==
  \A t \in SeqTasks :
    (/\ out[t].admitted
     /\ \/ Sender(t) = ADMIN_USER_ID
        \/ Sender(t) \in ChatAdmins(msg[t].chat) /\ out[t].failed # "lookup")
    => /\ NoEnforcement(t) /\ ~out[t].classified
       /\ Count(user_warnings, Sender(t)) = out[t].c0

\* C7: a classifier call that fails or times out ends the handling without
\* an exception, with the message not spam, nothing deleted, warned or
\* banned and the sender's count as it was.
C7_ClassifierFailOpen ==
  \A t \in SeqTasks :
    out[t].answer \in {"error", "timeout"} =>
      /\ pc[t] = "done"
      /\ ~verdict[t].is_spam
      /\ NoEnforcement(t)
      /\ Count(user_warnings, Sender(t)) = out[t].c0

C7_Witness ==
  \E t \in SeqTasks :
    /\ out[t].answer = "timeout" /\ pc[t] = "done"
    /\ out[t].c0 = 2 /\ Count(user_warnings, Sender(t)) = 2

\* C8: no failure of a gateway call leaves handle_message as an exception.
C8_NothingEscapes == \A t \in Tasks : pc[t] # "raised"

\* C9: when the send of a warning fails, the sender's count is the count the
\* message found plus one, and stays so.
C9_CountedDespiteSendFailure ==
  \A t \in SeqTasks :
    out[t].failed = "warn" =>
      /\ out[t].c0 < StrikeLimit - 1
      /\ out[t].warned = out[t].c0 + 1
      /\ Count(user_warnings, Sender(t)) = out[t].c0 + 1

C9_Witness ==
  \E t \in SeqTasks :
    /\ out[t].failed = "warn" /\ pc[t] = "done" /\ out[t].c0 = 1
    /\ clock > 0 /\ user_last_message[Sender(t)] < Instant(clock)

\* C10: the counter transition of a spam verdict is applied although the
\* delete of the message failed: the count went up by one, or the ban was
\* emitted.
C10_DeleteFailureStillCounts ==
  \A t \in SeqTasks :
    out[t].failed = "delete" =>
      \/ Count(user_warnings, Sender(t)) = out[t].c0 + 1
      \/ out[t].banned = 1

C12_LookupFailure ==
  \A t \in SeqTasks :
    out[t].admitted =>
      /\ Sender(t) = ADMIN_USER_ID =>
           NoEnforcement(t) /\ ~out[t].classified /\ ~out[t].judged
      /\ (out[t].failed = "lookup" /\ Sender(t) # ADMIN_USER_ID) =>
           out[t].judged \/ out[t].classified

\* C13: the active blacklist is at every step the complete set of the
\* stored words, before or after a reload and never part of one, and a
\* message judged on the blacklist matched a word of the stored table.
C13_ReloadInOneStep ==
  /\ blacklist_words = load_blacklist(db_blacklist)
  /\ \A t \in SeqTasks :
       (out[t].judged /\ verdict[t].reason = "Blacklisted word detected") =>
         \E word \in db_blacklist : Contains(Lower(TextOf(msg[t])), word)

C13_Witness ==
  \E t \in SeqTasks :
    /\ out[t].judged /\ out[t].lookup
    /\ verdict[t].reason = "Blacklisted word detected"
    /\ blacklist_words = {Lower(WordBuyNow), Lower(WordFree)}

\* C14: a step that ends in a state where the message of a task is judged
\* not spam leaves the whole warning map as it was, the task is finished and
\* no delete, warning, ban or notice was requested for the message.
C14_NotSpamNoEffect ==
  [][\A t \in SeqTasks :
       (out'[t].judged /\ ~verdict'[t].is_spam) =>
         /\ user_warnings' = user_warnings
         /\ pc'[t] = "done"
         /\ out'[t].deleted = 0 /\ out'[t].warned = 0
         /\ out'[t].banned = 0 /\ out'[t].noticed = 0]_vars

C14_Witness ==
  \E t \in SeqTasks :
    /\ out[t].judged /\ ~verdict[t].is_spam /\ out[t].classified
    /\ Sender(t) = 1 /\ Count(user_warnings, 1) = 1
    /\ Count(user_warnings, 2) = 2

\* C15: a handled message has at most one delete request and at most one
\* outcome, a warning or a ban and never both, and a spam verdict moved the
\* sender's counter exactly once: up by one, or to absent with the ban.
C15_OneOutcome ==
  \A t \in SeqTasks :
    pc[t] \in {"done", "raised"} =>
      /\ out[t].deleted <= 1
      /\ out[t].banned <= 1
      /\ ~(out[t].warned > 0 /\ out[t].banned > 0)
      /\ (out[t].judged /\ verdict[t].is_spam) =>
           \/ Count(user_warnings, Sender(t)) = out[t].c0 + 1
           \/ out[t].banned = 1 /\ Count(user_warnings, Sender(t)) = 0

\* C16: every task finishes, also when the classifier never answers: its
\* call is given up at the timeout, the message is then not spam and the
\* task is over.
C16_Terminates ==
  /\ \A t \in SeqTasks : <>(pc[t] \in {"done", "raised"})
  /\ [](\A t \in SeqTasks :
          out[t].answer = "timeout" =>
            pc[t] = "done" /\ out[t].judged /\ ~verdict[t].is_spam)

C16_Witness ==
  \E t \in SeqTasks :
    /\ out[t].answer = "timeout" /\ pc[t] = "done"
    /\ msg[t].chat = PrivateChat /\ out[t].failed = "lookup"

C17_RulesMatched(t) ==
  LET hits == C4_Hits(msg[t], blacklist_words, "none", RespOk)
  IN  hits[1] \/ hits[2] \/ hits[3] \/ hits[4]

\* C17: for a message that reached the rules, the classifier is called
\* exactly when none of the link, mention, forward and blacklist rules
\* matched and the text (the caption when there is no text) has more than
\* 15 characters; with at most 15 characters, or no text at all, and no rule
\* matched the message is not spam.
C17_ClassifierIff ==
  \A t \in SeqTasks :
    (out[t].judged \/ out[t].classified) =>
      /\ out[t].classified <=>
           (~C17_RulesMatched(t) /\ Len(TextOf(msg[t])) > MinAILen)
      /\ (~C17_RulesMatched(t) /\ Len(TextOf(msg[t])) <= MinAILen) =>
           out[t].judged /\ ~verdict[t].is_spam /\ out[t].answer = "none"

C17_Witness ==
  \E t \in SeqTasks :
    /\ out[t].judged /\ ~out[t].classified /\ ~verdict[t].is_spam
    /\ msg[t].text = NoText /\ msg[t].caption = NoText
    /\ msg[t].entities = {"mention"}

\* C18: in an allowed chat a message is rejected by the flood guard
\* exactly when its sender has a last accepted time and the full time since
\* then is below the threshold, however long that time is.
C18_FullElapsedTime ==
  \A t \in SeqTasks :
    (pc[t] \notin {"idle", "start"} /\ Sender(t) # None
       /\ msg[t].chat \in allowed_chats) =>
      (out[t].flood <=> out[t].under)

\* C19: a step in which a message is admitted sets the sender's last-seen
\* time to the time of the step and leaves every other user's entry as it
\* was; every other step, a rejection included, leaves the whole map as it
\* was.
C19_LastSeenOnlyOnAdmission ==
  [][\A t \in SeqTasks :
       IF ~out[t].admitted /\ out'[t].admitted
       THEN /\ Sender(t) \in DOMAIN user_last_message'
            /\ user_last_message'[Sender(t)] = Instant(clock)
            /\ \A u \in Users \ {Sender(t)} :
                 /\ u \in DOMAIN user_last_message' <=>
                      u \in DOMAIN user_last_message
                 /\ u \in DOMAIN user_last_message =>
                      user_last_message'[u] = user_last_message[u]
       ELSE user_last_message' = user_last_message]_vars

C19_Witness ==
  \E t \in SeqTasks :
    /\ out[t].flood /\ Sender(t) = 1 /\ clock = 1
    /\ user_last_message[1] = 0
    /\ 2 \in DOMAIN user_last_message /\ user_last_message[2] = 1

====
